---- MODULE Spec2Model ----
(***************************************************************************)
(* A model of src/main.py: the three FastAPI handlers /metrics,            *)
(* /pause_campaign and /resume_campaign, the helper fetch_metrics with its *)
(* inner coroutines fetch and get_campaign_insights, and the formatters.   *)
(*                                                                         *)
(* One behaviour follows one request from its arrival to its response.     *)
(* The handlers keep no state between requests, so requests do not         *)
(* interact.  The suspension points of the coroutines are the outbound     *)
(* HTTP calls; an action runs a coroutine from one suspension point to the *)
(* next.  What the upstream answers is an input, chosen when a call        *)
(* settles.                                                                *)
(***************************************************************************)
EXTENDS Integers, Sequences, FiniteSets, TLC

(***************************************************************************)
(* Bounds of the model.                                                    *)
(***************************************************************************)
\* the longest campaign list the upstream returns
MaxCampaigns == 2
\* the longest "actions" list of an account-insights row
MaxActions == 2

(***************************************************************************)
(* Program constants.                                                      *)
(***************************************************************************)
HTTP_OK == 200
HTTP_BAD_REQUEST == 400
HTTP_NOT_FOUND == 404
HTTP_BAD_GATEWAY == 502

(***************************************************************************)
(* JSON values as the code reads them.                                     *)
(*                                                                         *)
(* A scalar field of an insight row is read by float(x.get(k, 0) or 0).    *)
(* "none" stands for every value the `or 0` replaces (a missing key, null, *)
(* "", 0), "bad" for a string float() rejects, "num" for a number or a     *)
(* numeric string.                                                         *)
(***************************************************************************)
NoneVal == [t |-> "none", n |-> 0]
BadVal == [t |-> "bad", n |-> 0]
Num(k) == [t |-> "num", n |-> k]

ActionValues == {NoneVal, BadVal, Num(1)}
ActionTypes == {"offsite_conversion", "link_click"}

SeqsUpTo(S, n) == UNION {[1..k -> S] : k \in 0..n}

Actions == [action_type : ActionTypes, value : ActionValues]

\* The scalar fields of a row: a well-formed row, and every row that departs
\* from it in one field, which is then absent ("none") or malformed ("bad").
WellFormedScalars ==
    [impressions |-> Num(4), clicks |-> Num(1), cpc |-> Num(2), spend |-> Num(3)]
ScalarFields == {"impressions", "clicks", "cpc", "spend"}
RowScalars ==
    {WellFormedScalars}
        \cup {[WellFormedScalars EXCEPT ![f] = v] :
                f \in ScalarFields, v \in {NoneVal, BadVal}}

\* the first row of an account insights answer
\* (fields impressions,clicks,ctr,spend,cpc,actions)
AccountRows ==
    {[impressions |-> s.impressions, clicks |-> s.clicks, cpc |-> s.cpc,
      spend |-> s.spend, actions |-> a] :
        s \in RowScalars, a \in SeqsUpTo(Actions, MaxActions)}

\* the first row of a per-campaign insights answer
\* (fields impressions,clicks,ctr,cpc)
CampaignRows ==
    {[impressions |-> s.impressions, clicks |-> s.clicks, cpc |-> s.cpc] :
        s \in RowScalars}

\* a campaign descriptor: camp.get("id"), camp.get("name", "")
CampaignDescriptors ==
    {[id |-> "c1", name |-> "Alpha", has_name |-> TRUE],
     [id |-> "c2", name |-> "", has_name |-> FALSE]}

\* a JSON object and its "data" member: absent, null, or a list
NoData == [has |-> "absent", rows |-> <<>>]
NullData == [has |-> "null", rows |-> <<>>]
ListData(rows) == [has |-> "list", rows |-> rows]

\* the first row is the only one the code reads
InsightsBodies ==
    {NoData, NullData, ListData(<<>>)} \cup {ListData(<<r>>) : r \in AccountRows}
CampaignListBodies ==
    {NoData, NullData}
        \cup {ListData(s) : s \in SeqsUpTo(CampaignDescriptors, MaxCampaigns)}
CampaignInsightsBodies ==
    {NoData, NullData, ListData(<<>>)} \cup {ListData(<<r>>) : r \in CampaignRows}

(***************************************************************************)
(* What one outbound call can end in.                                      *)
(***************************************************************************)
NoJson == [has |-> "nojson", rows |-> <<>>]
ErrorStatuses == {201, 403, 500}
ErrorTexts == {"Forbidden", "Oops"}
TransportMessages == {"", "Cannot connect to host"}

\* the call raises before a response exists: timeout (message "") or transport
TransportOutcomes ==
    {[kind |-> "transport", status |-> 0, text |-> m, json |-> NoJson] :
        m \in TransportMessages}
\* a response whose status is not 200
StatusOutcomes ==
    {[kind |-> "response", status |-> s, text |-> b, json |-> NoJson] :
        s \in ErrorStatuses, b \in ErrorTexts}
\* a 200 response with a JSON body
OkOutcomes(bodies) ==
    {[kind |-> "response", status |-> 200, text |-> "json", json |-> j] :
        j \in bodies}
\* a 200 response whose body resp.json() rejects
UndecodableOutcome ==
    [kind |-> "response", status |-> 200, text |-> "not json", json |-> NoJson]

GetOutcomes(bodies) ==
    TransportOutcomes \cup StatusOutcomes \cup OkOutcomes(bodies)
        \cup {UndecodableOutcome}
\* what the three kinds of GET can end in
InsightsOutcomes == GetOutcomes(InsightsBodies)
CampaignListOutcomes == GetOutcomes(CampaignListBodies)
CampaignInsightsOutcomes == GetOutcomes(CampaignInsightsBodies)
PostOutcomes ==
    TransportOutcomes \cup StatusOutcomes
        \cup {[kind |-> "response", status |-> 200, text |-> b, json |-> NoJson] :
                b \in {"{\"success\":true}"}}

(***************************************************************************)
(* Strings the code builds.  A detail is kept in parts so that the status  *)
(* and the body text inside "Erro <status>: <text>" stay readable.         *)
(***************************************************************************)
Plain(s) == [msg |-> s, status |-> 0, text |-> ""]
NoDetail == Plain("")
\* the message without the body text of the response
ErroTextNoBody(status, text) == [msg |-> "Erro", status |-> status, text |-> ""]
\* f"Erro {resp.status}: {text}"
ErroText(status, text) == [msg |-> "Erro", status |-> status, text |-> text]

(***************************************************************************)
(* Formatter.  A float is the fraction num/den; a formatted string is the  *)
(* number of hundredths it shows and its suffix.                           *)
(***************************************************************************)
Frac(a, b) == [num |-> a, den |-> b]
\* float(n)
ToFloat(n) == Frac(n, 1)
\* int(x) for x >= 0
ToInt(x) == x.num \div x.den

\* f"{value:.2f}": the nearest hundredth, ties to even
RoundHundredths(x) ==
    LET q == (x.num * 100) \div x.den
        r == (x.num * 100) % x.den
    IN  IF 2 * r > x.den \/ (2 * r = x.den /\ q % 2 = 1) THEN q + 1 ELSE q

format_percentage(value) == [hundredths |-> RoundHundredths(value), suffix |-> "%"]
format_currency(value) == [hundredths |-> RoundHundredths(value), suffix |-> ""]

\* the literals "0.00%" and "0.00"
ZeroPercent == [hundredths |-> 0, suffix |-> "%"]
ZeroCurrency == [hundredths |-> 0, suffix |-> ""]

(***************************************************************************)
(* Exceptions.  An operation that can raise returns a record whose field   *)
(* `raised` tells whether it did.                                          *)
(***************************************************************************)
\* `not x` for a body field: missing or null ("none"), or the empty string
Falsy(x) == x \in {"none", ""}

\* float(x.get(k, 0) or 0) raises ValueError exactly on a malformed string
FloatRaises(v) == v.t = "bad"
FloatOf(v) == IF v.t = "num" THEN ToFloat(v.n) ELSE ToFloat(0)

\* str(e) of the exception a call raised before any response arrived
TransportText(o) == Plain(o.text)
\* str(e) of the exception resp.json() raises on an undecodable body
DecodeErrorText == Plain("Attempt to decode JSON with unexpected mimetype")

\* fetch(url, params), lines 55-64, on a call that ended in outcome o
fetch(o) ==
    IF o.kind = "transport"
    THEN [raised |-> TRUE, e |-> TransportText(o), json |-> NoJson]
    ELSE IF o.status # HTTP_OK
    THEN [raised |-> TRUE, e |-> ErroText(o.status, o.text), json |-> NoJson]
    ELSE IF o.json = NoJson
    THEN [raised |-> TRUE, e |-> DecodeErrorText, json |-> NoJson]
    ELSE [raised |-> FALSE, e |-> NoDetail, json |-> o.json]

\* a test for a missing "data" only, which lets an empty list through
NoInsightsDataMissingOnly(body) == body.has # "list"
\* `not insights_data.get("data")`, line 76
NoInsightsData(body) == body.has # "list" \/ Len(body.rows) = 0
\* the negation of `if data.get("data")`, line 112
NoRows(body) == body.has # "list" \/ Len(body.rows) = 0

\* campaigns_data.get("data", []) raises at len() when "data" is null
CampaignsRaise(body) == body.has = "null"
\* campaigns_data.get("data", []), lines 92 and 125
CampaignList(body) == IF body.has = "list" THEN body.rows ELSE <<>>
\* a count of the different campaign ids instead of the entries
total_active_distinct(body) ==
    Cardinality({CampaignList(body)[i].id : i \in DOMAIN CampaignList(body)})
\* len(campaigns_data.get("data", [])), line 92
total_active(body) == Len(CampaignList(body))

\* the actions the generator of lines 86-90 converts
IsConversion(a) == a.action_type = "offsite_conversion"

RECURSIVE SumConversions(_)
\* sum(float(a.get("value", 0) or 0) for a in actions if IsConversion(a))
SumConversions(actions) ==
    IF actions = <<>> THEN 0
    ELSE LET a == Head(actions)
         IN  (IF IsConversion(a) THEN ToInt(FloatOf(a.value)) ELSE 0)
                 + SumConversions(Tail(actions))

\* the generator raises ValueError at the first malformed value it converts
ConversionsRaise(actions) ==
    \E i \in 1..Len(actions) :
        IsConversion(actions[i]) /\ FloatRaises(actions[i].value)

\* lines 79-90 raise ValueError
AccountRowRaises(item) ==
    \/ FloatRaises(item.impressions)
    \/ FloatRaises(item.clicks)
    \/ FloatRaises(item.cpc)
    \/ FloatRaises(item.spend)
    \/ ConversionsRaise(item.actions)

\* (clicks / impressions * 100) if impressions > 0 else 0, lines 81 and 118
ctr_val(clicks, impressions) ==
    IF impressions.num > 0
    THEN Frac(clicks.num * impressions.den * 100, clicks.den * impressions.num)
    ELSE ToFloat(0)

NoMetrics ==
    [impressions |-> 0, clicks |-> 0, ctr |-> ZeroPercent, conversions |-> 0,
     average_cpc |-> ZeroCurrency, total_spent |-> ZeroCurrency]

\* lines 78-90 on a row that does not raise
AccountMetrics(item) ==
    LET impressions == FloatOf(item.impressions)
        clicks == FloatOf(item.clicks)
    IN  [impressions |-> ToInt(impressions),
         clicks |-> ToInt(clicks),
         ctr |-> format_percentage(ctr_val(clicks, impressions)),
         conversions |-> SumConversions(item.actions),
         average_cpc |-> format_currency(FloatOf(item.cpc)),
         total_spent |-> format_currency(FloatOf(item.spend))]

(***************************************************************************)
(* get_campaign_insights, lines 94-122.  `written` is a history field: the *)
(* metric fields the call has assigned since the record was built.         *)
(***************************************************************************)
MetricFields == {"impressions", "clicks", "ctr", "cpc"}

\* lines 95-103
ZeroSummary(camp) ==
    [id |-> camp.id,
     nome_da_campanha |-> IF camp.has_name THEN camp.name ELSE "",
     impressions |-> 0, clicks |-> 0, ctr |-> ZeroPercent, cpc |-> ZeroCurrency,
     written |-> {}]

\* lines 113-119 on the first row; the except of line 120 ends the block at
\* the first conversion that raises and keeps what was assigned before it
OverwriteFromRow(res, itm) ==
    IF FloatRaises(itm.impressions) \/ FloatRaises(itm.clicks) THEN res
    ELSE LET imp == FloatOf(itm.impressions)
             clk == FloatOf(itm.clicks)
             upto118 == [res EXCEPT !.impressions = ToInt(imp),
                                    !.clicks = ToInt(clk),
                                    !.ctr = format_percentage(ctr_val(clk, imp)),
                                    !.written = {"impressions", "clicks", "ctr"}]
         IN  IF FloatRaises(itm.cpc) THEN upto118
             ELSE [upto118 EXCEPT !.cpc = format_currency(FloatOf(itm.cpc)),
                                  !.written = MetricFields]

\* the record get_campaign_insights(camp) returns when its call ends in o
get_campaign_insights(camp, o) ==
    LET res == ZeroSummary(camp)
        data == fetch(o)
    IN  IF data.raised THEN res
        ELSE IF NoRows(data.json) THEN res
        ELSE OverwriteFromRow(res, data.json.rows[1])

(***************************************************************************)
(* The state of one request.                                               *)
(***************************************************************************)
VARIABLES
    endpoint,        \* "metrics", "pause_campaign" or "resume_campaign"
    payload,         \* the request body
    phase,           \* Received, Validated, Dispatched, Responded
    top,             \* the two calls of the first gather (line 67)
    post,            \* the POST of pause_campaign / resume_campaign
    camps,           \* the calls of the second gather (line 124), in list order
    insights_data,   \* line 67, until its last read (line 90)
    campaigns_data,  \* line 67
    acct,            \* the locals of lines 79-90
    recent,          \* the `res` of each get_campaign_insights, in list order
    overtaken,       \* history: a campaign call settled before one listed ahead
    response,        \* the status and detail the client receives
    body,            \* the JSON the client receives with a 200
    nresponses       \* history: how many responses were produced

vars ==
    <<endpoint, payload, phase, top, post, camps, insights_data, campaigns_data,
      acct, recent, overtaken, response, body, nresponses>>

Endpoints == {"metrics", "pause_campaign", "resume_campaign"}
TopCalls == {"insights", "campaigns"}
\* payload.get(k): "none" when the key is missing or null
FieldValues == {"none", "", "x1"}

\* a call that was never issued
IdleCall ==
    [st |-> "idle", issued |-> 0, kind |-> "none", status |-> 0, text |-> "",
     data |-> "none"]
\* session.get / session.post was entered
Issue(c) == [c EXCEPT !.st = "pending", !.issued = c.issued + 1]
\* what the "data" member of an answer looked like
DataShape(json) ==
    IF json.has = "list"
    THEN (IF Len(json.rows) = 0 THEN "empty" ELSE "rows")
    ELSE json.has
\* the call ended in outcome o
Settle(c, o, st) ==
    [c EXCEPT !.st = st, !.kind = o.kind, !.status = o.status, !.text = o.text,
              !.data = DataShape(o.json)]

NoResponse == [status |-> 0, detail |-> NoDetail]
NoBody == [kind |-> "none"]

DetailMetrics400 == Plain("E necessario fornecer 'account_id' e 'access_token'.")
DetailControl400 == Plain("Faltando 'campaign_id' ou 'access_token'.")
DetailNoInsights == Plain("Nenhum dado de insights encontrado.")
\* an exception leaves the handler uncaught: the server answers 500
Unhandled == [status |-> 500, detail |-> Plain("Internal Server Error")]

Init ==
    /\ endpoint \in Endpoints
    /\ payload \in [account_id : FieldValues, campaign_id : FieldValues,
                    access_token : FieldValues]
    /\ (endpoint = "metrics" => payload.campaign_id = "none")
    /\ (endpoint # "metrics" => payload.account_id = "none")
    /\ phase = "Received"
    /\ top = [c \in TopCalls |-> IdleCall]
    /\ post = IdleCall
    /\ camps = <<>>
    /\ insights_data = NoJson
    /\ campaigns_data = NoJson
    /\ acct = NoMetrics
    /\ recent = <<>>
    /\ overtaken = FALSE
    /\ response = NoResponse
    /\ body = NoBody
    /\ nresponses = 0

\* the handler returns or raises: the client gets its response
Respond(status, detail, json) ==
    /\ response' = [status |-> status, detail |-> detail]
    /\ body' = json
    /\ nresponses' = nresponses + 1
    /\ phase' = "Responded"

(***************************************************************************)
(* Validation, lines 146-149, 158-161 and 181-184.                         *)
(***************************************************************************)
\* `if not a and not b`
MissingBoth(a, b) == Falsy(a) /\ Falsy(b)
\* `if not a or not b`
MissingField(a, b) == Falsy(a) \/ Falsy(b)

get_metrics ==
    /\ endpoint = "metrics"
    /\ phase = "Received"
    /\ IF MissingField(payload.account_id, payload.access_token)
       THEN Respond(HTTP_BAD_REQUEST, DetailMetrics400, NoBody)
       ELSE /\ phase' = "Validated"
            /\ UNCHANGED <<response, body, nresponses>>
    /\ UNCHANGED <<endpoint, payload, top, post, camps, insights_data,
                   campaigns_data, acct, recent, overtaken>>

pause_campaign ==
    /\ endpoint = "pause_campaign"
    /\ phase = "Received"
    /\ IF MissingField(payload.campaign_id, payload.access_token)
       THEN Respond(HTTP_BAD_REQUEST, DetailControl400, NoBody)
       ELSE /\ phase' = "Validated"
            /\ UNCHANGED <<response, body, nresponses>>
    /\ UNCHANGED <<endpoint, payload, top, post, camps, insights_data,
                   campaigns_data, acct, recent, overtaken>>

resume_campaign ==
    /\ endpoint = "resume_campaign"
    /\ phase = "Received"
    /\ IF MissingField(payload.campaign_id, payload.access_token)
       THEN Respond(HTTP_BAD_REQUEST, DetailControl400, NoBody)
       ELSE /\ phase' = "Validated"
            /\ UNCHANGED <<response, body, nresponses>>
    /\ UNCHANGED <<endpoint, payload, top, post, camps, insights_data,
                   campaigns_data, acct, recent, overtaken>>

(***************************************************************************)
(* fetch_metrics, lines 31-142.                                            *)
(***************************************************************************)
\* line 67: asyncio.gather starts both top-level fetches
gather_top ==
    /\ endpoint = "metrics"
    /\ phase = "Validated"
    /\ top' = [c \in TopCalls |-> Issue(top[c])]
    /\ phase' = "Dispatched"
    /\ UNCHANGED <<endpoint, payload, post, camps, insights_data, campaigns_data,
                   acct, recent, overtaken, response, body, nresponses>>

\* leaving `async with session` closes the session under a call still in flight
CloseSession(calls) ==
    [c \in DOMAIN calls |->
        IF calls[c].st = "pending" THEN [calls[c] EXCEPT !.st = "aborted"]
        ELSE calls[c]]

\* lines 128-139
result(metrics, campaigns, summaries) ==
    [kind |-> "metrics",
     active_campaigns |-> total_active(campaigns),
     impressions |-> metrics.impressions,
     clicks |-> metrics.clicks,
     ctr |-> metrics.ctr,
     conversions |-> metrics.conversions,
     average_cpc |-> metrics.average_cpc,
     roi |-> ZeroPercent,
     total_spent |-> metrics.total_spent,
     recent_campaigns_total |-> Len(summaries),
     recent_campaignsGA |-> summaries]

\* insights_data["data"][0], line 78, raises when there is no first row
FirstRowRaises(ins) == ins.has # "list" \/ Len(ins.rows) = 0

\* lines 76-126, from the return of the first gather to the next suspension:
\* the 404, the account metrics, and the start of the second gather
after_gather(ins, cmp) ==
    IF NoInsightsData(ins)
    THEN /\ Respond(HTTP_NOT_FOUND, DetailNoInsights, NoBody)
         /\ UNCHANGED <<acct, camps, recent>>
    ELSE IF \/ FirstRowRaises(ins)
            \/ AccountRowRaises(ins.rows[1])
            \/ CampaignsRaise(cmp)
    THEN /\ Respond(Unhandled.status, Unhandled.detail, NoBody)
         /\ UNCHANGED <<acct, camps, recent>>
    ELSE LET metrics == AccountMetrics(ins.rows[1])
             list == CampaignList(cmp)
         IN  /\ acct' = metrics
             /\ camps' = [i \in 1..Len(list) |-> Issue(IdleCall)]
             /\ recent' = [i \in 1..Len(list) |-> ZeroSummary(list[i])]
             /\ IF Len(list) = 0
                THEN Respond(HTTP_OK, NoDetail, result(metrics, cmp, <<>>))
                ELSE UNCHANGED <<phase, response, body, nresponses>>

\* one of the two top-level fetches ends in outcome o
top_fetch_settles ==
    /\ phase = "Dispatched"
    /\ \E c \in TopCalls :
        /\ top[c].st = "pending"
        /\ \E o \in (IF c = "insights" THEN InsightsOutcomes
                     ELSE CampaignListOutcomes) :
            LET r == fetch(o)
                other == CHOOSE d \in TopCalls : d # c
                ins == IF c = "insights" THEN r.json ELSE insights_data
                cmp == IF c = "campaigns" THEN r.json ELSE campaigns_data
            IN  IF r.raised
                THEN \* lines 71-73
                     /\ top' = CloseSession(
                                  [top EXCEPT ![c] = Settle(top[c], o, "failed")])
                     /\ Respond(HTTP_BAD_GATEWAY, r.e, NoBody)
                     /\ insights_data' = NoJson
                     /\ UNCHANGED <<campaigns_data, acct, camps, recent>>
                ELSE IF top[other].st = "pending"
                THEN /\ top' = [top EXCEPT ![c] = Settle(top[c], o, "ok")]
                     /\ insights_data' = ins
                     /\ campaigns_data' = cmp
                     /\ UNCHANGED <<phase, acct, camps, recent, response, body,
                                    nresponses>>
                ELSE /\ top' = [top EXCEPT ![c] = Settle(top[c], o, "ok")]
                     /\ insights_data' = NoJson
                     /\ campaigns_data' = cmp
                     /\ after_gather(ins, cmp)
    /\ UNCHANGED <<endpoint, payload, post, overtaken>>

\* a gather that waits until every awaitable has succeeded
gather_done_success(calls) == \A i \in DOMAIN calls : calls[i].st = "ok"
\* asyncio.gather returns when no awaitable is pending
gather_done(calls) == \A i \in DOMAIN calls : calls[i].st # "pending"
\* results collected in the order of completion
gather_store_completion(results, i, res) ==
    [results EXCEPT
        ![1 + Cardinality({j \in DOMAIN camps : camps[j].st # "pending"})] = res]
\* asyncio.gather returns the results in the order of its arguments
gather_store(results, i, res) == [results EXCEPT ![i] = res]

\* one of the per-campaign fetches ends in outcome o, lines 110-126
campaign_fetch_settles ==
    /\ phase = "Dispatched"
    /\ \E i \in DOMAIN camps :
        /\ camps[i].st = "pending"
        /\ \E o \in CampaignInsightsOutcomes :
            LET camp == CampaignList(campaigns_data)[i]
                res == get_campaign_insights(camp, o)
                calls == [camps EXCEPT ![i].st = IF fetch(o).raised THEN "failed"
                                                 ELSE "ok"]
                summaries == gather_store(recent, i, res)
            IN  /\ camps' = calls
                /\ recent' = summaries
                /\ overtaken' =
                       (overtaken \/ \E j \in 1..(i - 1) : camps[j].st = "pending")
                /\ IF gather_done(calls)
                   THEN Respond(HTTP_OK, NoDetail,
                                result(acct, campaigns_data, summaries))
                   ELSE UNCHANGED <<phase, response, body, nresponses>>
    /\ UNCHANGED <<endpoint, payload, top, post, insights_data, campaigns_data,
                   acct>>

(***************************************************************************)
(* pause_campaign and resume_campaign after validation, lines 163-173 and  *)
(* 186-196.  The two differ in the status they post and in their log text. *)
(***************************************************************************)
\* lines 167 and 190: session.post is entered
post_status ==
    /\ endpoint \in {"pause_campaign", "resume_campaign"}
    /\ phase = "Validated"
    /\ post' = Issue(post)
    /\ phase' = "Dispatched"
    /\ UNCHANGED <<endpoint, payload, top, camps, insights_data, campaigns_data,
                   acct, recent, overtaken, response, body, nresponses>>

\* a test for a status outside 200..299
PostFailedNon2xx(status) == status < 200 \/ status >= 300
\* `if resp.status != 200`, lines 169 and 192
PostFailed(status) == status # HTTP_OK

\* lines 167-173 and 190-196 on a POST that ended in outcome o
control_response(o, campaign_id) ==
    IF o.kind = "transport"
    THEN [status |-> Unhandled.status, detail |-> Unhandled.detail, json |-> NoBody]
    ELSE IF PostFailed(o.status)
    THEN [status |-> o.status, detail |-> Plain(o.text), json |-> NoBody]
    ELSE [status |-> HTTP_OK, detail |-> NoDetail,
          json |-> [kind |-> "control", success |-> TRUE,
                    campaign_id |-> campaign_id]]

post_settles ==
    /\ endpoint \in {"pause_campaign", "resume_campaign"}
    /\ phase = "Dispatched"
    /\ post.st = "pending"
    /\ \E o \in PostOutcomes :
        LET r == control_response(o, payload.campaign_id)
        IN  /\ post' = Settle(post, o, IF r.status = HTTP_OK THEN "ok"
                                       ELSE "failed")
            /\ Respond(r.status, r.detail, r.json)
    /\ UNCHANGED <<endpoint, payload, top, camps, insights_data, campaigns_data,
                   acct, recent, overtaken>>

Next ==
    \/ get_metrics
    \/ pause_campaign
    \/ resume_campaign
    \/ gather_top
    \/ top_fetch_settles
    \/ campaign_fetch_settles
    \/ post_status
    \/ post_settles

Spec == Init /\ [][Next]_vars

\* every step the event loop can take is eventually taken: a call in flight
\* settles (the 3-second timeout at the latest) and a ready coroutine runs
FairSpec == Spec /\ WF_vars(Next)

(***************************************************************************)
(* Properties.                                                             *)
(***************************************************************************)
IsMetrics == endpoint = "metrics"
IsControl == endpoint \in {"pause_campaign", "resume_campaign"}
Responded == phase = "Responded"
MetricsOk == IsMetrics /\ response.status = 200

\* some outbound call of the request was issued
CampaignCallIssued == \E i \in DOMAIN camps : camps[i].issued > 0
UpstreamCallIssued ==
    \/ \E c \in TopCalls : top[c].issued > 0
    \/ post.issued > 0
    \/ CampaignCallIssued

\* the record of campaign `camp` with every metric at its default
IsZeroRecordOf(r, camp) ==
    /\ r.id = camp.id
    /\ r.nome_da_campanha = camp.name
    /\ r.impressions = 0
    /\ r.clicks = 0
    /\ r.ctr = [hundredths |-> 0, suffix |-> "%"]
    /\ r.cpc = [hundredths |-> 0, suffix |-> ""]

\* C1: in every 200 response of /metrics, recent_campaigns_total, the length
\* of the campaign records, active_campaigns and the number of descriptors
\* in the campaign-list answer are the same number.
C1_CountsAgree ==
    MetricsOk =>
        /\ body.recent_campaigns_total = Len(body.recent_campaignsGA)
        /\ Len(body.recent_campaignsGA) = body.active_campaigns
        /\ body.active_campaigns = Len(campaigns_data.rows)

\* a 200 over two descriptors, one whose call failed and one whose call
\* returned a row
C1_Witness ==
    /\ MetricsOk
    /\ Len(campaigns_data.rows) = 2
    /\ \E i, j \in DOMAIN camps :
        /\ camps[i].st = "failed"
        /\ camps[j].st = "ok"
        /\ recent[j].written # {}

\* C2: when both top-level calls succeeded and the account insights have a
\* row, the response is 200 and holds, for every campaign whose own call
\* failed, that campaign's record with zero-valued metrics.
C2_Claim ==
    ( /\ IsMetrics
      /\ Responded
      /\ \A c \in TopCalls : top[c].st = "ok"
      /\ top["insights"].data = "rows" )
    => /\ response.status = 200
       /\ Len(body.recent_campaignsGA) = Len(campaigns_data.rows)
       /\ \A i \in DOMAIN camps :
            camps[i].st = "failed" =>
                IsZeroRecordOf(body.recent_campaignsGA[i], campaigns_data.rows[i])

\* C3 as stated: when the account insights call returned an empty data
\* list, the response is 404 and no per-campaign call is issued, whatever
\* the campaign-list call ended in.
C3_Original ==
    ( /\ IsMetrics
      /\ Responded
      /\ top["insights"].st = "ok"
      /\ top["insights"].data = "empty" )
    => /\ response.status = 404
       /\ ~CampaignCallIssued

\* C3 amended: when the account insights call returned an empty data list,
\* no per-campaign call is ever issued; the response is 404 when the
\* campaign-list call succeeded and 502 when it failed.
C3_Amended ==
    ( /\ IsMetrics
      /\ top["insights"].st = "ok"
      /\ top["insights"].data = "empty" )
    => /\ ~CampaignCallIssued
       /\ Responded =>
            /\ top["campaigns"].st \in {"ok", "failed"}
            /\ top["campaigns"].st = "ok" => response.status = 404
            /\ top["campaigns"].st = "failed" => response.status = 502

\* an empty insights list next to a campaign list that holds descriptors
C3_Witness ==
    /\ IsMetrics
    /\ Responded
    /\ top["insights"].data = "empty"
    /\ top["campaigns"].st = "ok"
    /\ campaigns_data.has = "list"
    /\ Len(campaigns_data.rows) > 0
    /\ response.status = 404

\* C4 as stated: when a top-level call failed, the response is 502, its
\* detail carries the status and the body text of that failure, and no
\* per-campaign call is issued.
C4_Original ==
    ( /\ IsMetrics
      /\ Responded
      /\ \E c \in TopCalls : top[c].st = "failed" )
    => /\ response.status = 502
       /\ ~CampaignCallIssued
       /\ \E c \in TopCalls :
            /\ top[c].st = "failed"
            /\ response.detail.msg = "Erro"
            /\ response.detail.status = top[c].status
            /\ response.detail.text = top[c].text

\* C4 amended: when a top-level call failed, the response is 502 and no
\* per-campaign call is issued; the detail carries the status and the body
\* text of the failure when the failure is a response whose status is not
\* 200, and otherwise (timeout, transport error, undecodable body) it is the
\* message of the error, which holds neither.
C4_Amended ==
    ( /\ IsMetrics
      /\ Responded
      /\ \E c \in TopCalls : top[c].st = "failed" )
    => /\ response.status = 502
       /\ ~CampaignCallIssued
       /\ \E c \in TopCalls :
            /\ top[c].st = "failed"
            /\ IF top[c].kind = "response" /\ top[c].status # 200
               THEN /\ response.detail.msg = "Erro"
                    /\ response.detail.status = top[c].status
                    /\ response.detail.text = top[c].text
               ELSE /\ response.detail.status = 0
                    /\ response.detail.text = ""
                    /\ top[c].kind = "transport" =>
                            response.detail.msg = top[c].text

\* the campaign-list call answers 403 after the insights call succeeded
C4_Witness ==
    /\ IsMetrics
    /\ Responded
    /\ top["insights"].st = "ok"
    /\ top["campaigns"].st = "failed"
    /\ top["campaigns"].status = 403
    /\ top["campaigns"].text = "Forbidden"
    /\ response.status = 502
    /\ response.detail.text = "Forbidden"

Is2xx(status) == status >= 200 /\ status < 300

RequiredMissing ==
    \/ payload.access_token = "none"
    \/ IsMetrics /\ payload.account_id = "none"
    \/ IsControl /\ payload.campaign_id = "none"

\* C6: a request that misses a required field is answered 400 without any
\* upstream call, no call is issued before validation, and a call is issued
\* only for a request that has both required fields.
C6_ValidationFirst ==
    /\ UpstreamCallIssued => ~RequiredMissing
    /\ phase = "Received" => ~UpstreamCallIssued
    /\ (Responded /\ RequiredMissing) =>
            (response.status = 400 /\ ~UpstreamCallIssued)

\* a pause request without campaign_id, with its access_token, answered
C6_Witness ==
    /\ endpoint = "pause_campaign"
    /\ payload.campaign_id = "none"
    /\ payload.access_token = "x1"
    /\ Responded
    /\ response.status = 400
    /\ post.issued = 0

RECURSIVE WellFormedConversions(_)
\* the sum of the well-formed values of the offsite_conversion actions
WellFormedConversions(actions) ==
    IF actions = <<>> THEN 0
    ELSE LET a == Head(actions)
         IN  (IF a.action_type = "offsite_conversion" /\ a.value.t = "num"
              THEN a.value.n ELSE 0)
                 + WellFormedConversions(Tail(actions))

\* the step in which the handler reads a first insights row whose scalar
\* fields are all well-formed or absent
ReadsAccountRow ==
    /\ IsMetrics
    /\ phase = "Dispatched"
    /\ top["insights"].st = "ok"
    /\ top["insights"].data = "rows"
    /\ \A f \in ScalarFields : insights_data.rows[1][f].t # "bad"
    /\ top["campaigns"].st = "pending"
    /\ top'["campaigns"].st = "ok"
    /\ campaigns_data'.has # "null"

\* C7: whatever the values of the actions of the first insights row, the
\* handler does not fail on them, conversions is the sum of the well-formed
\* values of the offsite_conversion actions, and the 200 response carries
\* that sum.
C7_Claim ==
    /\ [][ReadsAccountRow =>
            /\ response'.status # 500
            /\ acct'.conversions =
                   WellFormedConversions(insights_data.rows[1].actions)]_vars
    /\ [](MetricsOk => body.conversions = acct.conversions)

\* C8: a 200 response of /metrics is produced only after every per-campaign
\* call has settled, and its i-th record carries the id of the i-th
\* descriptor of the campaign list, in whatever order the calls completed.
C8_AllSettledInOrder ==
    /\ Responded => \A i \in DOMAIN camps : camps[i].st \in {"ok", "failed"}
    /\ MetricsOk =>
        /\ Len(camps) = Len(campaigns_data.rows)
        /\ Len(body.recent_campaignsGA) = Len(campaigns_data.rows)
        /\ \A i \in DOMAIN campaigns_data.rows :
                body.recent_campaignsGA[i].id = campaigns_data.rows[i].id

\* a 200 over two different campaigns, where the second call completed
\* first and one of the calls failed
C8_Witness ==
    /\ MetricsOk
    /\ overtaken
    /\ Len(campaigns_data.rows) = 2
    /\ campaigns_data.rows[1].id # campaigns_data.rows[2].id
    /\ \E i \in DOMAIN camps : camps[i].st = "failed"

\* C9: a record returned by get_campaign_insights either has all four
\* metric fields at their defaults, none of them assigned, or has all four
\* assigned from the row.
C9_Claim ==
    \A i \in DOMAIN recent :
        camps[i].st # "pending" =>
            \/ recent[i].written = {}
            \/ recent[i].written = {"impressions", "clicks", "ctr", "cpc"}

Rank(p) ==
    CASE p = "Received" -> 0
      [] p = "Validated" -> 1
      [] p = "Dispatched" -> 2
      [] p = "Responded" -> 3

\* C10: every request eventually reaches Responded, its phase never moves
\* backwards, it produces one response and no more, and no outbound call is
\* issued a second time.
C10_SingleShot ==
    /\ <>Responded
    /\ [][Rank(phase') >= Rank(phase)]_vars
    /\ [](nresponses <= 1 /\ (Responded <=> nresponses = 1))
    /\ [](/\ \A c \in TopCalls : top[c].issued <= 1
          /\ post.issued <= 1
          /\ \A i \in DOMAIN camps : camps[i].issued <= 1)

\* a /metrics request answered after one of its per-campaign calls failed,
\* that call issued once
C10_Witness ==
    /\ IsMetrics
    /\ Responded
    /\ nresponses = 1
    /\ \E i \in DOMAIN camps : camps[i].st = "failed" /\ camps[i].issued = 1

====
